---- MODULE Spec2Model ----
(***************************************************************************)
(* atomheart: the native board RustyBoardChi, its legal-move generator     *)
(* LegalMoveKeyGeneratorRust, the position key compute_key and the         *)
(* valanga adapter ChessDynamics.step.                                     *)
(*                                                                         *)
(* Python objects with identity are kept in two heaps: boards (a board     *)
(* and the engine handle chess_ it owns share one id) and gens (the        *)
(* generator objects, which boards may share after a shallow copy).        *)
(* An optional value (Python None or a value) is a sequence of length 0    *)
(* or 1.  The rules engine shakmaty_python_binding is an external          *)
(* collaborator; it is represented by a finite rules engine on eight       *)
(* squares with the same interface (legal_moves, play_and_return_o,        *)
(* is_game_over, result, fullmove_number, halfmove_clock, copy).           *)
(***************************************************************************)
EXTENDS Integers, Sequences, FiniteSets, TLC

VARIABLES boards, gens, lin, last

vars == <<boards, gens, lin, last>>

\* ---- bounds of the model ------------------------------------------------
MaxBoards == 2

MaxPly == 10

MaxPlyFork == 2

\* Squares and pieces of a pair of arbitrary snapshots; squares and pieces
\* of the board a move is played on.
MaxSnapshotSquares == 2

MaxSnapshotPieces == 1

MaxSquares == 4

MaxPieces == 2

\* Largest value of an integer argument of compute_key, and the number of
\* arguments that differ from zero, False and None.
MaxKeyField == 1

MaxKeyFields == 1

\* ---- optional values ----------------------------------------------------
None == <<>>

Some(x) == <<x>>

IsNone(o) == o = <<>>

Val(o) == o[1]

\* ---- the rules engine (stand-in for shakmaty_python_binding.MyChess) ----
\* Pieces: white king on square 0 or 1, white pawn on 2 then 4, a promoted
\* white queen on 5, black king on 5 or 6, black rook on 7 (castling right
\* bit 7 until the black king or the rook moves).  A square of -1 means the
\* piece is not on the board.
StartChess ==
  [wk |-> 0, wp |-> 2, wq |-> -1, bk |-> 5, br |-> 7, turn |-> TRUE,
   ep |-> -1, cr |-> 128, fullmove |-> 1, halfmove |-> 0, over |-> "*"]

Bit(s) == IF s < 0 THEN 0 ELSE 2 ^ s

MyMove(src, dst) == [src |-> src, dst |-> dst]

\* MyMove.uci(): the notation of a move, a string of square names; here the
\* sequence of the two squares, ordered as strings are.
Uci(m) == <<m.src, m.dst>>

UciLess(u, v) == u[1] < v[1] \/ (u[1] = v[1] /\ u[2] < v[2])

\* MyMove(uci=..., my_chess=...): the move object of a notation.
MoveOfUci(u) == MyMove(u[1], u[2])

\* MyChess.legal_moves(): pawn and rook moves first, the king move last.
ChessLegalMoves(c) ==
  IF c.over # "*" THEN <<>>
  ELSE IF c.turn
    THEN (IF c.wp = 2 THEN <<MyMove(2, 4)>> ELSE <<>>)
         \o (IF c.wp = 4 /\ c.bk = 6 THEN <<MyMove(4, 5)>> ELSE <<>>)
         \o <<MyMove(c.wk, 1 - c.wk)>>
    ELSE (IF c.wp = 2 /\ c.br = 7 THEN <<MyMove(7, 2)>> ELSE <<>>)
         \o (IF c.wp = 4 /\ c.bk = 5 /\ c.br = 7 THEN <<MyMove(7, 4)>> ELSE <<>>)
         \o <<MyMove(c.bk, 11 - c.bk)>>

SeqToSet(s) == {s[i] : i \in 1..Len(s)}

ChessIsLegal(c, m) == m \in SeqToSet(ChessLegalMoves(c))

\* The effect of a move on the pieces, whoever is to move.
ChessMovePieces(c, m) ==
  CASE m.src \in {0, 1} -> [c EXCEPT !.wk = m.dst]
    [] m.src = 2 -> [c EXCEPT !.wp = 4]
    [] m.src = 4 -> [c EXCEPT !.wp = -1, !.wq = 5, !.over = "1-0"]
    [] m.src \in {5, 6} -> [c EXCEPT !.bk = m.dst, !.cr = 0]
    [] m.src = 7 /\ m.dst = 2 ->
         [c EXCEPT !.br = 2, !.wp = -1, !.cr = 0, !.over = "0-1"]
    [] OTHER ->
         [c EXCEPT !.br = 4, !.wp = -1, !.cr = 0, !.over = "1/2-1/2"]

IsZeroing(m) == m.src \in {2, 4, 7}

\* MyChess.play_*: the position after the move, with turn, en-passant square
\* and the two counters advanced.
ChessPlay(c, m) ==
  [ChessMovePieces(c, m) EXCEPT
     !.turn = ~c.turn,
     !.ep = IF m.src = 2 THEN 3 ELSE -1,
     !.halfmove = IF IsZeroing(m) THEN 0 ELSE c.halfmove + 1,
     !.fullmove = IF c.turn THEN c.fullmove ELSE c.fullmove + 1]

ChessPly(c) == 2 * (c.fullmove - 1) + (IF c.turn THEN 0 ELSE 1)

ChessIsGameOver(c) == c.over # "*"

ChessResult(c) == c.over

\* The twelve values play_and_return_o hands back, in its order.
ChessFields(c) ==
  [castling_rights |-> c.cr,
   pawns |-> Bit(c.wp),
   knights |-> 0,
   bishops |-> 0,
   rooks |-> Bit(c.br),
   queens |-> Bit(c.wq),
   kings |-> Bit(c.wk) + Bit(c.bk),
   white |-> Bit(c.wk) + Bit(c.wp) + Bit(c.wq),
   black |-> Bit(c.bk) + Bit(c.br),
   turn_int |-> IF c.turn THEN 1 ELSE 0,
   ep_square_int |-> c.ep,
   promoted |-> Bit(c.wq)]

\* MyChess.fen(): the position with both counters, as one value.
ChessFen(c) == <<c.wk, c.wp, c.wq, c.bk, c.br, c.turn, c.cr, c.ep, c.halfmove, c.fullmove>>

\* The pieces on the board as (square, piece type, colour) triples.
ChessPieces(c) ==
  {<<c.wk, 6, TRUE>>, <<c.bk, 6, FALSE>>}
  \cup (IF c.wp >= 0 THEN {<<c.wp, 1, TRUE>>} ELSE {})
  \cup (IF c.wq >= 0 THEN {<<c.wq, 5, TRUE>>} ELSE {})
  \cup (IF c.br >= 0 THEN {<<c.br, 4, FALSE>>} ELSE {})

\* ---- position keys (iboard.py) -----------------------------------------
\* compute_key as it would be if no en-passant square were written as square 0.
compute_key_ep_zero(pawns, knights, bishops, rooks, queens, kings, turn, castling_rights, ep_square, white, black, promoted, fullmove_number, halfmove_clock) ==
  <<pawns, knights, bishops, rooks, queens, kings, turn, castling_rights,
    IF ep_square = << >> THEN <<0>> ELSE ep_square,
    white, black, promoted, fullmove_number, halfmove_clock>>

compute_key(pawns, knights, bishops, rooks, queens, kings, turn, castling_rights, ep_square, white, black, promoted, fullmove_number, halfmove_clock) ==
  <<pawns, knights, bishops, rooks, queens, kings, turn, castling_rights,
    ep_square, white, black, promoted, fullmove_number, halfmove_clock>>

\* [:-2] as it would be if only the last component were dropped.
WithoutLastCounter(key) == SubSeq(key, 1, Len(key) - 1)

\* IBoard.fast_representation_without_counters: fast_representation_[:-2]
WithoutCounters(key) == SubSeq(key, 1, Len(key) - 2)

fast_representation_without_counters(bd) == WithoutCounters(bd.fast_representation_)

\* IBoard.tag
tag(bd) == bd.fast_representation_

\* ---- Python list and Counter helpers -----------------------------------
\* list[k]: the element, or <<>> when k raises IndexError.
ListIndex(s, k) ==
  IF 0 <= k /\ k < Len(s) THEN Some(s[k + 1])
  ELSE IF k < 0 /\ -k <= Len(s) THEN Some(s[Len(s) + k + 1])
  ELSE None

\* Counter.update([k]) as it would be if it counted nothing.
CounterUpdateAbsent(cnt, k) == cnt

\* Counter.update([k])
CounterUpdate(cnt, k) ==
  IF k \in DOMAIN cnt THEN [cnt EXCEPT ![k] = @ + 1] ELSE cnt @@ (k :> 1)

\* counter[k] = 1
CounterSetOne(cnt, k) ==
  [x \in (DOMAIN cnt) \cup {k} |-> IF x = k THEN 1 ELSE cnt[x]]

CounterGet(cnt, k) == IF k \in DOMAIN cnt THEN cnt[k] ELSE 0

\* max(counter.values())
CounterMax(cnt) == CHOOSE n \in {cnt[k] : k \in DOMAIN cnt} :
                     \A k \in DOMAIN cnt : cnt[k] <= n

\* ---- LegalMoveKeyGeneratorRust (rusty_board.py) -------------------------
RECURSIVE InsertKey(_, _, _)
\* Insert key k into the sorted key list s (stable, by notation).
InsertKey(moves, s, k) ==
  IF s = <<>> THEN <<k>>
  ELSE IF UciLess(Uci(moves[k + 1]), Uci(moves[Head(s) + 1]))
    THEN <<k>> \o s
    ELSE <<Head(s)>> \o InsertKey(moves, Tail(s), k)

RECURSIVE SortPrefix(_, _)
SortPrefix(moves, n) ==
  IF n = 0 THEN <<>> ELSE InsertKey(moves, SortPrefix(moves, n - 1), n - 1)

\* sorted(list(range(number_moves)), key=uci)
SortedKeys(moves, n) == SortPrefix(moves, n)

\* list(range(n))
RangeKeys(n) == [i \in 1..n |-> i - 1]

\* LegalMoveKeyGeneratorRust.__init__
GenInit(sort_legal_moves, chess_rust_binding, generated_moves) ==
  IF IsNone(generated_moves)
    THEN [chess_rust_binding |-> chess_rust_binding,
          generated_moves |-> None,
          number_moves |-> None,
          it |-> None,
          all_generated_keys_ |-> None,
          sort_legal_moves |-> sort_legal_moves]
    ELSE [chess_rust_binding |-> chess_rust_binding,
          generated_moves |-> generated_moves,
          number_moves |-> Some(Len(Val(generated_moves))),
          it |-> Some(RangeKeys(Len(Val(generated_moves)))),
          all_generated_keys_ |->
            IF sort_legal_moves
              THEN Some(SortedKeys(Val(generated_moves), Len(Val(generated_moves))))
              ELSE Some(RangeKeys(Len(Val(generated_moves)))),
          sort_legal_moves |-> sort_legal_moves]

\* copy_with_reset as it would be if it kept the generated moves.
GenCopyWithoutReset(g) == g

\* LegalMoveKeyGeneratorRust.copy_with_reset
GenCopyWithReset(g) == GenInit(g.sort_legal_moves, g.chess_rust_binding, None)

\* LegalMoveKeyGeneratorRust.copy
GenCopy(g, copied_chess_rust_binding) ==
  LET legal_move_copy ==
        GenInit(g.sort_legal_moves, copied_chess_rust_binding, g.generated_moves)
  IN IF ~IsNone(g.all_generated_keys_)
       THEN [legal_move_copy EXCEPT !.all_generated_keys_ = g.all_generated_keys_]
       ELSE legal_move_copy

\* LegalMoveKeyGeneratorRust.get_all: the generator after the call; c is the
\* position of the engine handle the generator is bound to.
GenAfterGetAll(g, c) ==
  IF IsNone(g.generated_moves)
    THEN [g EXCEPT !.generated_moves = Some(ChessLegalMoves(c)),
                   !.number_moves = Some(Len(ChessLegalMoves(c))),
                   !.all_generated_keys_ = None]
    ELSE g

\* LegalMoveKeyGeneratorRust.get_all: the returned key list.
GenGetAllKeys(g, c) ==
  LET g2 == GenAfterGetAll(g, c)
  IN IF IsNone(g2.all_generated_keys_)
       THEN IF g2.sort_legal_moves
              THEN SortedKeys(Val(g2.generated_moves), Val(g2.number_moves))
              ELSE RangeKeys(Val(g2.number_moves))
       ELSE Val(g2.all_generated_keys_)

\* LegalMoveKeyGeneratorRust.get_all reads self.number_moves, an attribute
\* that only __init__ with moves, reset, set_legal_moves, get_all and
\* more_than_one create: AttributeError when the moves are there without it.
GenGetAllRaises(g) ==
  /\ ~IsNone(g.generated_moves)
  /\ IsNone(g.all_generated_keys_)
  /\ IsNone(g.number_moves)

\* LegalMoveKeyGeneratorRust.reset
GenReset(g, generated_moves) ==
  [g EXCEPT !.generated_moves = Some(generated_moves),
            !.number_moves = Some(Len(generated_moves)),
            !.it = Some(RangeKeys(Len(generated_moves))),
            !.all_generated_keys_ = Some(RangeKeys(Len(generated_moves)))]

\* LegalMoveKeyGeneratorRust.set_legal_moves
GenSetLegalMoves(g, generated_moves) ==
  [g EXCEPT !.generated_moves = Some(generated_moves),
            !.number_moves = Some(Len(generated_moves))]

\* LegalMoveKeyGeneratorRust.__iter__: the generator after the call and
\* whether the call raised.  The moves are generated when they are missing,
\* but number_moves is not set: reading it raises AttributeError when no
\* earlier call created it.
GenIter(g, c) ==
  LET g1 == IF IsNone(g.generated_moves)
              THEN [g EXCEPT !.generated_moves = Some(ChessLegalMoves(c))]
              ELSE g
  IN IF IsNone(g1.number_moves)
       THEN [gen |-> g1, err |-> TRUE]
       ELSE [gen |-> [g1 EXCEPT !.it =
                        IF g1.sort_legal_moves
                          THEN Some(SortedKeys(Val(g1.generated_moves),
                                               Val(g1.number_moves)))
                          ELSE Some(RangeKeys(Val(g1.number_moves)))],
             err |-> FALSE]

\* LegalMoveKeyGeneratorRust.more_than_one: the generator after the call.
GenAfterMoreThanOne(g, c) ==
  IF IsNone(g.generated_moves)
    THEN [g EXCEPT !.generated_moves = Some(ChessLegalMoves(c)),
                   !.number_moves = Some(Len(ChessLegalMoves(c))),
                   !.all_generated_keys_ = None]
    ELSE g

\* LegalMoveKeyGeneratorRust.more_than_one: the returned flag.
more_than_one(g, c) == Len(Val(GenAfterMoreThanOne(g, c).generated_moves)) > 0

\* ---- RustyBoardChi (rusty_board.py) -------------------------------------
BoardIds == 0 .. (MaxBoards - 1)

GenIds == 0 .. (MaxBoards - 1)

Live(b) == ~IsNone(boards[b])

B(b) == Val(boards[b])

G(g) == Val(gens[g])

\* RustyBoardChi.__post_init__
post_init_absent(bd) == bd

post_init(bd) ==
  [bd EXCEPT !.rep_to_count =
     CounterSetOne(bd.rep_to_count, fast_representation_without_counters(bd))]

\* RustyBoardChi.play_min_2: the bitboard fields taken from the engine after
\* the move (c2 is the position the engine is in after play_and_return_o).
play_min_2(bd, c2) ==
  LET f == ChessFields(c2)
  IN [bd EXCEPT !.chess_ = c2,
                !.castling_rights_ = f.castling_rights,
                !.pawns_ = f.pawns,
                !.knights_ = f.knights,
                !.bishops_ = f.bishops,
                !.rooks_ = f.rooks,
                !.queens_ = f.queens,
                !.kings_ = f.kings,
                !.white_ = f.white,
                !.black_ = f.black,
                !.promoted_ = f.promoted,
                !.turn_ = (f.turn_int # 0),
                !.ep_square_ = IF f.ep_square_int = -1 THEN None
                               ELSE Some(f.ep_square_int)]

\* RustyBoardChi.convert
convert(appearances, removals) ==
  [appearances_ |-> appearances, removals_ |-> removals]

\* RustyBoardChi.play_min_3: the same fields, and the modifications the
\* engine reports for the move from position c to position c2.
play_min_3(bd, c2) == play_min_2(bd, c2)

play_min_3_modifications(c, c2) ==
  convert(ChessPieces(c2) \ ChessPieces(c), ChessPieces(c) \ ChessPieces(c2))

\* The key play_move computes from the cached fields and the engine counters.
KeyOfBoard(bd) ==
  compute_key(bd.pawns_, bd.knights_, bd.bishops_, bd.rooks_, bd.queens_,
              bd.kings_, bd.turn_, bd.castling_rights_, bd.ep_square_,
              bd.white_, bd.black_, bd.promoted_,
              bd.chess_.fullmove, bd.chess_.halfmove)

\* play_move as it would be if it appended the move and counted the position
\* without recomputing the cached key.
play_move_stale_key(bd, m, c2, ng) ==
  LET b1 == [play_min_2(bd, c2) EXCEPT !.legal_moves_ = ng]
      b2 == [b1 EXCEPT !.rep_to_count =
               CounterUpdate(b1.rep_to_count,
                             fast_representation_without_counters(b1))]
  IN [b2 EXCEPT !.move_stack = Append(b2.move_stack, Uci(m))]

\* play_move as it would be if it put the notation in front of the history.
play_move_prepending(bd, m, c2, ng) ==
  LET b1 == IF bd.compute_board_modification
              THEN play_min_3(bd, c2) ELSE play_min_2(bd, c2)
      b2 == [b1 EXCEPT !.legal_moves_ = ng]
      b3 == [b2 EXCEPT !.fast_representation_ = KeyOfBoard(b2)]
      b4 == [b3 EXCEPT !.rep_to_count =
               CounterUpdate(b3.rep_to_count,
                             fast_representation_without_counters(b3))]
  IN [b4 EXCEPT !.move_stack = <<Uci(m)>> \o b4.move_stack]

\* RustyBoardChi.play_move: the board after the move m that took the engine
\* to c2; ng is the identity of the generator copy_with_reset creates.
play_move(bd, m, c2, ng) ==
  LET b1 == IF bd.compute_board_modification
              THEN play_min_3(bd, c2) ELSE play_min_2(bd, c2)
      b2 == [b1 EXCEPT !.legal_moves_ = ng]
      b3 == [b2 EXCEPT !.fast_representation_ = KeyOfBoard(b2)]
      b4 == [b3 EXCEPT !.rep_to_count =
               CounterUpdate(b3.rep_to_count,
                             fast_representation_without_counters(b3))]
  IN [b4 EXCEPT !.move_stack = Append(b4.move_stack, Uci(m))]

\* The value play_move returns.
play_move_result_always(bd, c2) ==
  Some(play_min_3_modifications(bd.chess_, c2))

play_move_result(bd, c2) ==
  IF bd.compute_board_modification
    THEN Some(play_min_3_modifications(bd.chess_, c2)) ELSE None

\* is_game_over as it would be if it left repetition to the engine.
is_game_over_engine_only(bd) == ChessIsGameOver(bd.chess_)

\* RustyBoardChi.is_game_over
is_game_over(bd) ==
  LET claim_draw == Len(bd.move_stack) >= 5
      three_fold_repetition ==
        IF claim_draw THEN CounterMax(bd.rep_to_count) > 2 ELSE FALSE
      chess_game_over == ChessIsGameOver(bd.chess_)
  IN three_fold_repetition \/ chess_game_over

\* result as it would be if it left repetition to the engine.
result_engine_only(bd, claim_draw) == ChessResult(bd.chess_)

\* RustyBoardChi.result
result(bd, claim_draw) ==
  LET claim_draw_ == Len(bd.move_stack) >= 5 /\ claim_draw
      three_fold_repetition ==
        IF claim_draw_ THEN CounterMax(bd.rep_to_count) > 2 ELSE FALSE
  IN IF three_fold_repetition THEN "1/2-1/2" ELSE ChessResult(bd.chess_)

\* RustyBoardChi.termination
termination(bd) == None

\* RustyBoardChi.fen
fen(bd) == ChessFen(bd.chess_)

\* RustyBoardChi.dump: what the call writes to the file.  The body of the
\* method is its docstring alone, so nothing is written.
dump(bd) == None

\* RustyBoardChi.into_fen_plus_history for the board stored at b: the fen
\* string and, as historical_moves, the list object move_stack of b itself
\* (move_history_stack returns self.move_stack and FenPlusHistory keeps the
\* reference).  at_call records the content of the list at the call.
into_fen_plus_history(bd, b) ==
  [current_fen |-> fen(bd), historical_moves |-> b, at_call |-> bd.move_stack]

\* copy as it would be if it carried the history over whatever stack says.
copy_keeping_stack(bd, stack, legal_moves_copy) ==
  post_init([bd EXCEPT !.legal_moves_ = legal_moves_copy])

\* RustyBoardChi.copy: the new board; chess_copy is self.chess_.copy(),
\* legal_moves_copy the identity of the generator the copy refers to.
copy(bd, stack, legal_moves_copy) ==
  post_init(
    [chess_ |-> bd.chess_,
     move_stack |-> IF stack THEN bd.move_stack ELSE <<>>,
     compute_board_modification |-> bd.compute_board_modification,
     rep_to_count |-> bd.rep_to_count,
     fast_representation_ |-> bd.fast_representation_,
     pawns_ |-> bd.pawns_,
     knights_ |-> bd.knights_,
     kings_ |-> bd.kings_,
     rooks_ |-> bd.rooks_,
     queens_ |-> bd.queens_,
     bishops_ |-> bd.bishops_,
     black_ |-> bd.black_,
     white_ |-> bd.white_,
     turn_ |-> bd.turn_,
     ep_square_ |-> bd.ep_square_,
     promoted_ |-> bd.promoted_,
     castling_rights_ |-> bd.castling_rights_,
     legal_moves_ |-> legal_moves_copy])

\* A board built on a starting position with no history: the dataclass
\* fields and __post_init__.
NewBoard(c, compute_board_modification, legal_moves_) ==
  LET f == ChessFields(c)
      ep == IF f.ep_square_int = -1 THEN None ELSE Some(f.ep_square_int)
  IN post_init(
       [chess_ |-> c,
        move_stack |-> <<>>,
        compute_board_modification |-> compute_board_modification,
        rep_to_count |-> << >>,
        fast_representation_ |->
          compute_key(f.pawns, f.knights, f.bishops, f.rooks, f.queens, f.kings,
                      f.turn_int # 0, f.castling_rights, ep, f.white, f.black,
                      f.promoted, c.fullmove, c.halfmove),
        pawns_ |-> f.pawns,
        knights_ |-> f.knights,
        kings_ |-> f.kings,
        rooks_ |-> f.rooks,
        queens_ |-> f.queens,
        bishops_ |-> f.bishops,
        black_ |-> f.black,
        white_ |-> f.white,
        turn_ |-> (f.turn_int # 0),
        ep_square_ |-> ep,
        promoted_ |-> f.promoted,
        castling_rights_ |-> f.castling_rights,
        legal_moves_ |-> legal_moves_])

\* ---- ChessDynamics.step (valanga_adapter.py) ----------------------------
\* _over_event_from_board as it would be with the two winners exchanged.
over_event_winners_exchanged(bd) ==
  LET res == result(bd, TRUE)
      term == termination(bd)
  IN IF res = "1-0" THEN <<"WIN", "BLACK", term>>
     ELSE IF res = "0-1" THEN <<"WIN", "WHITE", term>>
     ELSE IF res = "1/2-1/2" THEN <<"DRAW", "NO_KNOWN_WINNER", term>>
     ELSE <<"DO_NOT_KNOW_OVER", "NO_KNOWN_WINNER", term>>

\* _over_event_from_board: (how over, winner, termination)
over_event_from_board(bd) ==
  LET res == result(bd, TRUE)
      term == termination(bd)
  IN IF res = "1-0" THEN <<"WIN", "WHITE", term>>
     ELSE IF res = "0-1" THEN <<"WIN", "BLACK", term>>
     ELSE IF res = "1/2-1/2" THEN <<"DRAW", "NO_KNOWN_WINNER", term>>
     ELSE <<"DO_NOT_KNOW_OVER", "NO_KNOWN_WINNER", term>>

\* step as it was before termination() was gated behind is_game_over().
StepCallsUngated(is_over) ==
  <<"is_game_over", "result", "termination", "result", "termination">>

\* The methods step calls on the copied board after the move, in order.
StepCalls(is_over) ==
  <<"is_game_over">>
  \o (IF is_over THEN <<"result", "termination">> ELSE <<>>)
  \o (IF is_over THEN <<"result">> ELSE <<>>)
  \o (IF is_over THEN <<"termination">> ELSE <<>>)

\* step classifying the outcome whether or not the game is over.
StepTransitionUngated(board2, next_state, mods) ==
  [next_state |-> next_state,
   modifications |-> mods,
   is_over |-> is_game_over(board2),
   over_event |-> Some(over_event_from_board(board2)),
   info |-> [result |-> result(board2, TRUE), termination |-> termination(board2)],
   calls |-> StepCalls(is_game_over(board2))]

\* The Transition step returns for the copied and advanced board board2,
\* stored at next_state.
StepTransition(board2, next_state, mods) ==
  LET is_over == is_game_over(board2)
  IN [next_state |-> next_state,
      modifications |-> mods,
      is_over |-> is_over,
      over_event |-> IF is_over THEN Some(over_event_from_board(board2)) ELSE None,
      info |-> [result |-> IF is_over THEN result(board2, TRUE) ELSE "*",
                termination |-> IF is_over THEN termination(board2) ELSE None],
      calls |-> StepCalls(is_over)]

\* ---- the heaps ----------------------------------------------------------
Min(S) == CHOOSE x \in S : \A y \in S : x <= y

FreeBoards == {b \in BoardIds : ~Live(b)}

\* A generator identity no live board other than b refers to.
FreshGenFor(b) ==
  Min(GenIds \ {B(c).legal_moves_ : c \in {x \in BoardIds : Live(x) /\ x # b}})

\* Generators no board refers to any more are dropped.
Collect(bs, gs) ==
  [g \in GenIds |->
     IF \E b \in BoardIds : ~IsNone(bs[b]) /\ Val(bs[b]).legal_moves_ = g
       THEN gs[g] ELSE None]

\* ---- history variables --------------------------------------------------
\* lin[b]: the positions of the lineage of board b (every position since the
\* starting position, through copies), counted by reduced key, the number of
\* plies played in the lineage, the board b was copied from (itself when it
\* is no copy) and whether that copy was made with deep_copy_legal_moves;
\* held is the FenPlusHistory the caller last took of b, if any.
ReducedOfChess(c) ==
  LET f == ChessFields(c)
  IN <<f.pawns, f.knights, f.bishops, f.rooks, f.queens, f.kings, f.turn_int # 0,
       f.castling_rights,
       IF f.ep_square_int = -1 THEN None ELSE Some(f.ep_square_int),
       f.white, f.black, f.promoted>>

NoLin == [count |-> << >>, plies |-> 0, parent |-> 0, deep |-> FALSE, held |-> None]

LinCopied(l, b, deep_copy_legal_moves) ==
  [l EXCEPT !.parent = b, !.deep = deep_copy_legal_moves, !.held = None]

LinPlayed(l, c2) ==
  [l EXCEPT !.count = CounterUpdate(l.count, ReducedOfChess(c2)),
            !.plies = l.plies + 1]

\* last: the operation performed last, the boards it involved, whether it
\* raised, and what it returned.
Last(op, src, dst, err, ret) ==
  [op |-> op, src |-> src, dst |-> dst, err |-> err, ret |-> ret]

Raise(op, b) ==
  /\ last' = Last(op, b, b, TRUE, None)
  /\ UNCHANGED <<boards, gens, lin>>

\* ---- the engine's answer to a move --------------------------------------
\* A legal move is played.  The binding does not say what it does with a
\* move that is not legal in the position: it may raise (None) or play it.
ChessPlayOutcomes(c, m) ==
  IF ChessIsLegal(c, m) THEN {Some(ChessPlay(c, m))}
  ELSE {None, Some(ChessPlay(c, m))}

KeyInputs == -1 .. 2

UciInputs(b) == {Uci(m) : m \in SeqToSet(ChessLegalMoves(B(b).chess_))}

PlyBelow(b, n) == Live(b) /\ ChessPly(B(b).chess_) < n

RECURSIVE SumPly(_)
\* The plies recorded by the engines of the live boards in S, together.
SumPly(S) ==
  IF S = {} THEN 0
  ELSE LET b == Min(S)
       IN (IF Live(b) THEN ChessPly(B(b).chess_) ELSE 0) + SumPly(S \ {b})

PliesBelow(b, n) == Live(b) /\ SumPly(BoardIds) < n

\* ---- actions ------------------------------------------------------------
\* One board on the starting position, built with the given flags.
InitWith(sorts, modifs) ==
  \E sort_legal_moves \in sorts, compute_board_modification \in modifs :
    /\ boards = [b \in BoardIds |->
                   IF b = 0 THEN Some(NewBoard(StartChess, compute_board_modification, 0))
                   ELSE None]
    /\ gens = [g \in GenIds |->
                 IF g = 0 THEN Some(GenInit(sort_legal_moves, 0, None)) ELSE None]
    /\ lin = [b \in BoardIds |->
                IF b = 0 THEN [count |-> ReducedOfChess(StartChess) :> 1,
                               plies |-> 0, parent |-> 0, deep |-> FALSE,
                               held |-> None]
                ELSE NoLin]
    /\ last = Last("init", 0, 0, FALSE, None)

Init == InitWith(BOOLEAN, BOOLEAN)

\* Sorted legal moves and modification tracking, for the boards that fork.
InitFork == InitWith({TRUE}, {TRUE})

\* board.legal_moves.get_all(); the call raises when it has to build the
\* key list and the generator has no number_moves attribute.
GetAll(b) ==
  /\ Live(b)
  /\ LET gid == B(b).legal_moves_
         g == G(gid)
         c == B(g.chess_rust_binding).chess_
     IN IF GenGetAllRaises(g)
          THEN Raise("get_all", b)
          ELSE /\ gens' = [gens EXCEPT ![gid] = Some(GenAfterGetAll(g, c))]
               /\ last' = Last("get_all", b, b, FALSE, Some(GenGetAllKeys(g, c)))
               /\ UNCHANGED <<boards, lin>>

\* The state change of a played move (play_move on board b).
Played(op, b, m, c2) ==
  LET ng == FreshGenFor(b)
      bs == [boards EXCEPT ![b] = Some(play_move(B(b), m, c2, ng))]
      gs == [gens EXCEPT ![ng] = Some(GenCopyWithReset(G(B(b).legal_moves_)))]
  IN /\ boards' = bs
     /\ gens' = Collect(bs, gs)
     /\ lin' = [lin EXCEPT ![b] = LinPlayed(lin[b], c2)]
     /\ last' = Last(op, b, b, FALSE, play_move_result(B(b), c2))

\* The move play_move_key resolves key k to, None when it raises.
MoveOfKey(g, k) ==
  IF IsNone(g.generated_moves) THEN None
  ELSE ListIndex(Val(g.generated_moves), k)

\* board.play_move_key(k)
PlayMoveKey(b, k) ==
  /\ Live(b)
  /\ LET mv == MoveOfKey(G(B(b).legal_moves_), k)
     IN IF IsNone(mv) THEN Raise("play_move_key", b)
        ELSE \E c2 \in ChessPlayOutcomes(B(b).chess_, Val(mv)) :
               IF IsNone(c2) THEN Raise("play_move_key", b)
               ELSE Played("play_move_key", b, Val(mv), Val(c2))

\* board.play_move_uci(u)
PlayMoveUci(b, u) ==
  /\ Live(b)
  /\ LET chess_move == MoveOfUci(u)
     IN \E c2 \in ChessPlayOutcomes(B(b).chess_, chess_move) :
          IF IsNone(c2) THEN Raise("play_move_uci", b)
          ELSE Played("play_move_uci", b, chess_move, Val(c2))

\* copy as it would be if it handed its own generator to every copy.
CopyLegalMovesShared(b, d, deep_copy_legal_moves) ==
  [id |-> B(b).legal_moves_,
   heap |-> [gens EXCEPT ![B(b).legal_moves_] =
               Some([G(B(b).legal_moves_) EXCEPT !.chess_rust_binding = d])]]

\* copy as it would be if it cloned the generator whatever the flag says.
CopyLegalMovesCloned(b, d, deep_copy_legal_moves) ==
  [id |-> FreshGenFor(d),
   heap |-> [gens EXCEPT ![FreshGenFor(d)] = Some(GenCopy(G(B(b).legal_moves_), d))]]

\* RustyBoardChi.copy, the legal_moves_copy part for a copy stored at d: the
\* identity of the copy's generator and the generator heap afterwards.
CopyLegalMoves(b, d, deep_copy_legal_moves) ==
  LET gid == B(b).legal_moves_
  IN IF deep_copy_legal_moves
       THEN [id |-> FreshGenFor(d),
             heap |-> [gens EXCEPT ![FreshGenFor(d)] = Some(GenCopy(G(gid), d))]]
       ELSE [id |-> gid,
             heap |-> [gens EXCEPT ![gid] =
                         Some([G(gid) EXCEPT !.chess_rust_binding = d])]]

\* board.copy(stack, deep_copy_legal_moves), the copy stored in a free slot
Copy(b, stack, deep_copy_legal_moves) ==
  /\ Live(b)
  /\ FreeBoards # {}
  /\ LET d == Min(FreeBoards)
         cl == CopyLegalMoves(b, d, deep_copy_legal_moves)
         bs == [boards EXCEPT ![d] = Some(copy(B(b), stack, cl.id))]
     IN /\ boards' = bs
        /\ gens' = Collect(bs, cl.heap)
        /\ lin' = [lin EXCEPT ![d] = LinCopied(lin[b], b, deep_copy_legal_moves)]
        /\ last' = Last("copy", b, d, FALSE,
                        [stack |-> stack, deep_copy_legal_moves |-> deep_copy_legal_moves])

\* The arguments step passes to copy.
StepStackKept == TRUE

StepStack == FALSE

StepShallowCopy == FALSE

StepDeepCopy == TRUE

\* ChessDynamics.step(ChessState(board b), k), next_state stored in a free slot
Step(b, k) ==
  /\ Live(b)
  /\ FreeBoards # {}
  /\ LET d == Min(FreeBoards)
         cl == CopyLegalMoves(b, d, StepDeepCopy)
         g2 == Val(cl.heap[cl.id])
         board2 == copy(B(b), StepStack, cl.id)
         mv == MoveOfKey(g2, k)
     IN IF IsNone(mv) THEN Raise("step", b)
        ELSE \E c2 \in ChessPlayOutcomes(board2.chess_, Val(mv)) :
               IF IsNone(c2) THEN Raise("step", b)
               ELSE LET ng == FreshGenFor(d)
                        moved == play_move(board2, Val(mv), Val(c2), ng)
                        bs == [boards EXCEPT ![d] = Some(moved)]
                        gs == [cl.heap EXCEPT ![ng] = Some(GenCopyWithReset(g2))]
                    IN /\ boards' = bs
                       /\ gens' = Collect(bs, gs)
                       /\ lin' = [lin EXCEPT ![d] =
                                    LinPlayed(LinCopied(lin[b], b, StepDeepCopy), Val(c2))]
                       /\ last' = Last("step", b, d, FALSE,
                                       StepTransition(moved, d,
                                                      play_move_result(board2, Val(c2))))

\* The caller drops its last reference to board b.  The engine handle of b
\* stays alive while a generator of another board is bound to it, so b is
\* dropped only when none is.
Discard(b) ==
  /\ Live(b)
  /\ \E c \in BoardIds : c # b /\ Live(c)
  /\ \A c \in BoardIds :
       (c # b /\ Live(c)) => G(B(c).legal_moves_).chess_rust_binding # b
  /\ LET bs == [boards EXCEPT ![b] = None]
     IN /\ boards' = bs
        /\ gens' = Collect(bs, gens)
  /\ lin' = [lin EXCEPT ![b] = NoLin]
  /\ last' = Last("discard", b, b, FALSE, None)

\* ---- specifications -----------------------------------------------------
\* Every operation, on a board and the copies and successor states made of it.
Next ==
  \/ \E b \in BoardIds : GetAll(b)
  \/ \E b \in BoardIds, k \in KeyInputs : PliesBelow(b, MaxPlyFork) /\ PlayMoveKey(b, k)
  \/ \E b \in BoardIds : PliesBelow(b, MaxPlyFork) /\ \E u \in UciInputs(b) : PlayMoveUci(b, u)
  \/ \E b \in BoardIds, stack \in BOOLEAN, deep \in BOOLEAN : Copy(b, stack, deep)
  \/ \E b \in BoardIds, k \in KeyInputs : PliesBelow(b, MaxPlyFork) /\ Step(b, k)

Spec == InitFork /\ [][Next]_vars

\* One board, never copied, played on by key or by notation.
NextPlay ==
  \/ GetAll(0)
  \/ \E k \in KeyInputs : PlyBelow(0, MaxPly) /\ PlayMoveKey(0, k)
  \/ PlyBelow(0, MaxPly) /\ \E u \in UciInputs(0) : PlayMoveUci(0, u)

SpecPlay == Init /\ [][NextPlay]_vars

\* One board played on and then copied: copies are taken of board 0, which is
\* no longer played on once a copy exists.
Uncopied == FreeBoards = BoardIds \ {0}

NextCopy ==
  \/ GetAll(0)
  \/ \E k \in KeyInputs : Uncopied /\ PlyBelow(0, MaxPly) /\ PlayMoveKey(0, k)
  \/ Uncopied /\ PlyBelow(0, MaxPly) /\ \E u \in UciInputs(0) : PlayMoveUci(0, u)
  \/ \E stack \in BOOLEAN, deep \in BOOLEAN : Copy(0, stack, deep)

SpecCopy == Init /\ [][NextCopy]_vars

\* A lineage of adapter states: each step is applied to the next_state of the
\* previous transition (the live board that has recorded the most plies), and
\* the caller drops the states it has stepped from.
Newest(b) ==
  /\ Live(b)
  /\ \A c \in BoardIds : Live(c) => ChessPly(B(c).chess_) <= ChessPly(B(b).chess_)

NextStep ==
  \/ \E b \in BoardIds : Newest(b) /\ GetAll(b)
  \/ \E b \in BoardIds, k \in KeyInputs : Newest(b) /\ PlyBelow(b, MaxPly) /\ Step(b, k)
  \/ \E b \in BoardIds : ~Newest(b) /\ Discard(b)

SpecStep == Init /\ [][NextStep]_vars

\* ---- claims -------------------------------------------------------------
IsPlay(op) == op \in {"play_move_key", "play_move_uci"}

\* The reduced key of the position board b is in, read from its engine.
CurrentReduced(b) == ReducedOfChess(B(b).chess_)

\* A move has just made the current position occur for the third time (or
\* more) in the lineage of board b, at least five plies into it.
ThirdOccurrence(b) ==
  /\ CounterGet(lin[b].count, CurrentReduced(b)) >= 3
  /\ lin[b].plies >= 5

\* C1: on one board played in place and never copied, once a move has made a
\* reduced key occur for the third time with at least 5 moves played,
\* is_game_over() is True and result(claim_draw=True) is "1/2-1/2".
C1_RepetitionEndsGame ==
  (IsPlay(last.op) /\ ~last.err /\ ThirdOccurrence(0))
    => (is_game_over(B(0)) /\ result(B(0), TRUE) = "1/2-1/2")

C1_Witness ==
  /\ IsPlay(last.op) /\ ~last.err
  /\ CounterGet(lin[0].count, CurrentReduced(0)) = 3
  /\ lin[0].plies >= 5
  /\ ~ChessIsGameOver(B(0).chess_)
  /\ is_game_over(B(0))

IsStep == last.op = "step" /\ ~last.err

\* C2: in a lineage of states made by successive step calls, a step that
\* reaches a position for the third time, at least 5 plies into the lineage,
\* reports is_over, a DRAW over-event and info["result"] = "1/2-1/2".
C2_StepLineageRepetition ==
  (IsStep /\ ThirdOccurrence(last.dst))
    => /\ last.ret.is_over
       /\ ~IsNone(last.ret.over_event)
       /\ Val(last.ret.over_event)[1] = "DRAW"
       /\ last.ret.info.result = "1/2-1/2"

\* C3: within step, termination() is called only after is_game_over() on the
\* moved board has returned True; a step whose resulting position is not
\* over never calls termination(), has no over-event, info["termination"]
\* None and info["result"] "*".
C3_TerminationGated ==
  IsStep =>
    /\ \A i \in 1..Len(last.ret.calls) :
         last.ret.calls[i] = "termination"
           => (last.ret.is_over /\ \E j \in 1..(i - 1) : last.ret.calls[j] = "is_game_over")
    /\ ~is_game_over(B(last.dst))
         => /\ \A i \in 1..Len(last.ret.calls) : last.ret.calls[i] # "termination"
            /\ IsNone(last.ret.over_event)
            /\ IsNone(last.ret.info.termination)
            /\ last.ret.info.result = "*"

C3_Witness ==
  /\ IsStep
  /\ ~is_game_over(B(last.dst))
  /\ last.ret.calls = <<"is_game_over">>
  /\ lin[last.dst].plies >= 2

\* C4: step never mutates the caller's state: every board that exists when
\* step is called, with its generator, is the same after the call (tag,
\* bitboard fields, move history, repetition counter, generated legal
\* moves); the move shows only in the board of the returned next_state.
C4_StepLeavesCallerState ==
  [][last'.op = "step" =>
       /\ \A b \in BoardIds :
            Live(b) => /\ boards'[b] = boards[b]
                       /\ gens'[B(b).legal_moves_] = gens[B(b).legal_moves_]
       /\ ~last'.err =>
            /\ ~Live(last'.dst)
            /\ ~IsNone(boards'[last'.dst])
            /\ Val(boards'[last'.dst]).fast_representation_ # tag(B(last'.src))]_vars

C4_Witness ==
  /\ IsStep
  /\ Live(last.src)
  /\ tag(B(last.src)) # tag(B(last.dst))
  /\ ~IsNone(G(B(last.src).legal_moves_).generated_moves)
  /\ B(last.dst).move_stack # B(last.src).move_stack

\* C5: for every transition step returns, is_over equals
\* next_state.board.is_game_over(), over_event is None exactly when is_over
\* is False, and is_over is False whenever the position reached is not
\* terminal for the engine and no repetition draw applies.
C5_IsOverMatchesBoard ==
  IsStep =>
    /\ last.ret.is_over = is_game_over(B(last.dst))
    /\ IsNone(last.ret.over_event) <=> ~last.ret.is_over
    /\ (~ChessIsGameOver(B(last.dst).chess_) /\ ~ThirdOccurrence(last.dst))
         => ~last.ret.is_over

C5_Witness ==
  /\ IsStep
  /\ lin[last.dst].plies = 4
  /\ ~last.ret.is_over
  /\ IsNone(last.ret.over_event)

\* What board b would generate or return on the next access to its legal
\* moves: its generator after get_all().
LegalView(b) ==
  LET g == G(B(b).legal_moves_)
  IN GenAfterGetAll(g, B(g.chess_rust_binding).chess_)

\* Everything of board b a caller can observe: the board (tag, bitboard
\* fields, history, repetition counter, engine position), its generator and
\* the legal moves it would hand out.
Observed(b) == <<boards[b], gens[B(b).legal_moves_], LegalView(b)>>

MovesOrGenerates(op) == IsPlay(op) \/ op = "get_all"

\* C6: a board copied with deep_copy_legal_moves=True and its source are
\* independent: playing moves (and generating legal moves) on the copy leaves
\* the source's tag, fields, history, repetition counter and legal-move list
\* unchanged, and the same on the source leaves the copy's unchanged.
C6_DeepCopyIndependent ==
  [][\A c \in BoardIds :
       (Live(c) /\ lin[c].deep /\ lin[c].parent # c /\ MovesOrGenerates(last'.op))
         => /\ last'.src = c => Observed(lin[c].parent)' = Observed(lin[c].parent)
            /\ last'.src = lin[c].parent => Observed(c)' = Observed(c)]_vars

C6_Witness ==
  /\ IsPlay(last.op) /\ ~last.err
  /\ lin[last.src].deep /\ lin[last.src].parent # last.src
  /\ Len(B(last.src).move_stack) >= 1
  /\ ChessPly(B(last.src).chess_) = 1
  /\ ChessPly(B(lin[last.src].parent).chess_) = 1

\* C7: copy() carries the repetition counter over unchanged: right after
\* b.copy(stack, deep_copy_legal_moves) the copy's count of every reduced key
\* equals b's, the key of the current position included.
C7_CopyKeepsCounts ==
  last.op = "copy" =>
    \A k \in (DOMAIN B(last.src).rep_to_count) \cup (DOMAIN B(last.dst).rep_to_count) :
      CounterGet(B(last.dst).rep_to_count, k) = CounterGet(B(last.src).rep_to_count, k)

\* C8: after a board has applied a move, the legal moves it generates on the
\* next access are those of its own current position.
C8_OwnLegalMoves ==
  (IsPlay(last.op) /\ ~last.err)
    => Val(LegalView(last.src).generated_moves) = ChessLegalMoves(B(last.src).chess_)

\* C9: copy(stack=False) of a board on which N moves were played returns a
\* board with an empty history and the tag and FEN of the original, whose
\* history still holds its N moves.
C9_CopyWithoutStack ==
  [][(last'.op = "copy" /\ ~last'.ret.stack) =>
       /\ Val(boards'[last'.dst]).move_stack = << >>
       /\ Val(boards'[last'.dst]).fast_representation_ = tag(B(last'.src))
       /\ fen(Val(boards'[last'.dst])) = fen(B(last'.src))
       /\ Val(boards'[last'.src]).move_stack = B(last'.src).move_stack
       /\ Len(B(last'.src).move_stack) = lin[last'.src].plies]_vars

C9_Witness ==
  /\ last.op = "copy" /\ ~last.ret.stack
  /\ Len(B(last.src).move_stack) >= 2
  /\ B(last.dst).move_stack = << >>
  /\ tag(B(last.dst)) = tag(B(last.src))

\* The key of the position the engine of board bd is in.
KeyOfChess(c) ==
  LET f == ChessFields(c)
  IN compute_key(f.pawns, f.knights, f.bishops, f.rooks, f.queens, f.kings,
                 f.turn_int # 0, f.castling_rights,
                 IF f.ep_square_int = -1 THEN None ELSE Some(f.ep_square_int),
                 f.white, f.black, f.promoted, c.fullmove, c.halfmove)

\* C10: the cached key is coherent with the board after every move and every
\* copy: tag is compute_key of the board's piece bitboards, turn, castling
\* rights, en-passant square, occupancies, promoted mask and both counters.
C10_TagCoherent ==
  \A b \in BoardIds :
    Live(b) => /\ tag(B(b)) = KeyOfChess(B(b).chess_)
               /\ tag(B(b)) = KeyOfBoard(B(b))

C10_Witness ==
  /\ IsPlay(last.op) /\ ~last.err
  /\ \E b \in BoardIds : /\ Live(b) /\ b # last.src
                         /\ tag(B(b)) # tag(B(last.src))
  /\ B(last.src).castling_rights_ = 0

\* C11: every move application invalidates the legal-move cache: when
\* play_move_key or play_move_uci has returned, the generator of the board
\* holds no generated moves and no key list.
C11_PlayClearsLegalMoves ==
  (IsPlay(last.op) /\ ~last.err)
    => /\ IsNone(G(B(last.src).legal_moves_).generated_moves)
       /\ IsNone(G(B(last.src).legal_moves_).all_generated_keys_)

\* A move played by key: the moves had been generated before it.
C11_Witness ==
  /\ last.op = "play_move_key" /\ ~last.err
  /\ IsNone(G(B(last.src).legal_moves_).generated_moves)
  /\ Len(B(last.src).move_stack) >= 2

\* ---- keys and notations -------------------------------------------------
\* LegalMoveKeyGeneratorRust.get_uci_from_move_key: the notation returned,
\* None when the call raises (no generated moves, or an index that the list
\* rejects).
get_uci_from_move_key(g, move_key) ==
  IF IsNone(g.generated_moves) THEN None
  ELSE LET chess_move == ListIndex(Val(g.generated_moves), move_key)
       IN IF IsNone(chess_move) THEN None ELSE Some(Uci(Val(chess_move)))

\* board.get_uci_from_move_key(k)
GetUciFromMoveKey(b, k) ==
  /\ Live(b)
  /\ LET r == get_uci_from_move_key(G(B(b).legal_moves_), k)
     IN last' = Last("get_uci_from_move_key", b, b, IsNone(r), r)
  /\ UNCHANGED <<boards, gens, lin>>

RECURSIVE FirstKeyOf(_, _, _)
\* The first key from i on whose move has notation move_uci, None if none.
FirstKeyOf(moves, move_uci, i) ==
  IF i >= Len(moves) THEN None
  ELSE IF Uci(moves[i + 1]) = move_uci THEN Some(i)
  ELSE FirstKeyOf(moves, move_uci, i + 1)

\* IBoard.get_move_key_from_uci on a generator that holds generated moves:
\* the first key in range(len(get_all())) whose notation is move_uci, None
\* when the loop ends without one (BoardInvariantError).
get_move_key_from_uci(g, c, move_uci) ==
  LET number_moves == Len(GenGetAllKeys(g, c))
      moves == Val(g.generated_moves)
  IN FirstKeyOf(SubSeq(moves, 1, number_moves), move_uci, 0)

\* A notation that is the notation of no move of the engine.
NoMoveUci == <<3, 3>>

\* The notations handed to get_move_key_from_uci: those of the legal moves
\* of the board's position and one that is none of them.
UciOrNot(b) == UciInputs(b) \cup {NoMoveUci}

\* board.get_move_key_from_uci(u): get_all() generates the moves when they
\* are missing (or raises), then the keys are searched.
GetMoveKeyFromUci(b, u) ==
  /\ Live(b)
  /\ LET gid == B(b).legal_moves_
         g == G(gid)
         c == B(g.chess_rust_binding).chess_
     IN IF GenGetAllRaises(g)
          THEN Raise("get_move_key_from_uci", b)
          ELSE LET g2 == GenAfterGetAll(g, c)
                   key == get_move_key_from_uci(g2, c, u)
               IN /\ gens' = [gens EXCEPT ![gid] = Some(g2)]
                  /\ last' = Last("get_move_key_from_uci", b, b, IsNone(key), key)
                  /\ UNCHANGED <<boards, lin>>

\* One board, never copied: its moves are generated, looked up by key and
\* by notation, and played by key or by notation.
NextKeys ==
  \/ GetAll(0)
  \/ \E u \in UciOrNot(0) : GetMoveKeyFromUci(0, u)
  \/ \E k \in KeyInputs : GetUciFromMoveKey(0, k)
  \/ \E k \in KeyInputs : PlyBelow(0, MaxPly) /\ PlayMoveKey(0, k)
  \/ PlyBelow(0, MaxPly) /\ \E u \in UciInputs(0) : PlayMoveUci(0, u)

SpecKeys == Init /\ [][NextKeys]_vars

\* Key k does not name a move of the list board b has generated: there is no
\* list, or k is outside [0, N).
OutOfSync(b, k) ==
  LET g == G(B(b).legal_moves_)
  IN \/ IsNone(g.generated_moves)
     \/ k < 0
     \/ k >= Len(Val(g.generated_moves))

\* C12: play_move_key(k) with k out of sync with the generated legal-move
\* list (no list generated since the last mutation, or k outside [0, N))
\* raises, and leaves the board and its generator exactly as they were.
C12_PlayMoveKeyOutOfSync ==
  [][\A k \in KeyInputs :
       (Live(0) /\ OutOfSync(0, k) /\ PlayMoveKey(0, k))
         => (last'.err /\ UNCHANGED <<boards, gens>>)]_vars

\* C13: get_uci_from_move_key(k) on a generator holding N generated moves
\* raises for every k outside [0, N), negative keys included, and returns no
\* notation.
C13_UciOfKeyOutOfRange ==
  [][\A k \in KeyInputs :
       (/\ Live(0)
        /\ ~IsNone(G(B(0).legal_moves_).generated_moves)
        /\ OutOfSync(0, k)
        /\ GetUciFromMoveKey(0, k))
         => (last'.err /\ IsNone(last'.ret))]_vars

\* ---- forks --------------------------------------------------------------
\* One board played on, then copied, and the copies played on: board 0 is no
\* longer played on once a copy exists.
NextFork ==
  \/ \E b \in BoardIds : GetAll(b)
  \/ \E k \in KeyInputs : Uncopied /\ PlyBelow(0, MaxPly) /\ PlayMoveKey(0, k)
  \/ Uncopied /\ PlyBelow(0, MaxPly) /\ \E u \in UciInputs(0) : PlayMoveUci(0, u)
  \/ \E stack \in BOOLEAN, deep \in BOOLEAN : Copy(0, stack, deep)
  \/ \E b \in BoardIds \ {0}, k \in KeyInputs : PlyBelow(b, MaxPly) /\ PlayMoveKey(b, k)
  \/ \E b \in BoardIds \ {0} :
       PlyBelow(b, MaxPly) /\ \E u \in UciInputs(b) : PlayMoveUci(b, u)

SpecFork == InitFork /\ [][NextFork]_vars

\* At least five plies have been played in the lineage of board b and some
\* reduced key has occurred more than twice in it.
LineageRepetition(b) ==
  /\ lin[b].plies >= 5
  /\ \E k \in DOMAIN lin[b].count : lin[b].count[k] > 2

\* C14: is_game_over() is True exactly when the engine reports the position
\* as over, or at least 5 plies have been played in the board's lineage and
\* some reduced key has occurred more than twice; otherwise it is False.
C14_IsGameOverExactly ==
  \A b \in BoardIds :
    Live(b) =>
      (is_game_over(B(b)) <=> (ChessIsGameOver(B(b).chess_) \/ LineageRepetition(b)))

\* C15: result(claim_draw) is "1/2-1/2" when claim_draw is True, at least 5
\* plies have been played and some reduced key has occurred more than twice;
\* in every other case it is the engine's result string.
C15_ResultExactly ==
  \A b \in BoardIds, claim_draw \in BOOLEAN :
    Live(b) =>
      result(B(b), claim_draw) =
        (IF claim_draw /\ LineageRepetition(b)
           THEN "1/2-1/2" ELSE ChessResult(B(b).chess_))

\* C16: the 5-ply gate never suppresses a three-fold repetition: whenever
\* the count of some reduced key in rep_to_count exceeds 2, is_game_over()
\* is True and result(claim_draw=True) is "1/2-1/2", on every board, forks
\* made by copy and then played on included.
C16_GateNeverSuppresses ==
  \A b \in BoardIds :
    (Live(b) /\ CounterMax(B(b).rep_to_count) > 2)
      => (is_game_over(B(b)) /\ result(B(b), TRUE) = "1/2-1/2")

\* C17: copy(stack, deep_copy_legal_moves=False) does not clone the
\* generator: the new board refers to the generator object of the source, and
\* after the copy that generator is bound to the engine handle of the new
\* board, not to the source's.
C17_ShallowCopyRebinds ==
  (last.op = "copy" /\ ~last.ret.deep_copy_legal_moves)
    => /\ B(last.dst).legal_moves_ = B(last.src).legal_moves_
       /\ G(B(last.dst).legal_moves_).chess_rust_binding = last.dst
       /\ G(B(last.src).legal_moves_).chess_rust_binding # last.src

C17_Witness ==
  /\ last.op = "copy" /\ ~last.ret.deep_copy_legal_moves
  /\ last.dst # last.src
  /\ B(last.dst).legal_moves_ = B(last.src).legal_moves_
  /\ ~IsNone(G(B(last.src).legal_moves_).generated_moves)
  /\ Len(B(last.src).move_stack) >= 1

\* ---- compute_modifications (board_modification.py) ----------------------
\* a & b on bitboards
BitAnd(a, b) ==
  LET RECURSIVE And(_, _)
      And(x, y) == IF x = 0 \/ y = 0 THEN 0
                   ELSE (x % 2) * (y % 2) + 2 * And(x \div 2, y \div 2)
  IN And(a, b)

\* a & ~b on bitboards
BitAndNot(a, b) ==
  LET RECURSIVE AndNot(_, _)
      AndNot(x, y) == IF x = 0 THEN 0
                      ELSE (x % 2) * (1 - (y % 2)) + 2 * AndNot(x \div 2, y \div 2)
  IN AndNot(a, b)

\* chess.scan_forward(bb): the indices of the set bits
scan_forward(bb) ==
  LET RECURSIVE Scan(_, _)
      Scan(x, i) == IF x = 0 THEN {}
                    ELSE (IF x % 2 = 1 THEN {i} ELSE {}) \cup Scan(x \div 2, i + 1)
  IN Scan(bb, 0)

\* chess.PAWN .. chess.KING and chess.WHITE, chess.BLACK
PAWN == 1

KNIGHT == 2

BISHOP == 3

ROOK == 4

QUEEN == 5

KING == 6

WHITE == TRUE

BLACK == FALSE

PieceInSquare(square, piece, color) ==
  [square |-> square, piece |-> piece, color |-> color]

\* hop as it would be if the kings were left out.
hop_without_kings(previous_pawns, previous_kings, previous_queens, previous_rooks, previous_bishops, previous_knights, new_pawns, new_kings, new_queens, new_rooks, new_bishops, new_knights) ==
  <<<<previous_pawns, new_pawns, PAWN>>,
    <<previous_bishops, new_bishops, BISHOP>>,
    <<previous_rooks, new_rooks, ROOK>>,
    <<previous_knights, new_knights, KNIGHT>>,
    <<previous_queens, new_queens, QUEEN>>>>

\* compute_modifications: the list hop
hop(previous_pawns, previous_kings, previous_queens, previous_rooks, previous_bishops, previous_knights, new_pawns, new_kings, new_queens, new_rooks, new_bishops, new_knights) ==
  <<<<previous_pawns, new_pawns, PAWN>>,
    <<previous_bishops, new_bishops, BISHOP>>,
    <<previous_rooks, new_rooks, ROOK>>,
    <<previous_knights, new_knights, KNIGHT>>,
    <<previous_queens, new_queens, QUEEN>>,
    <<previous_kings, new_kings, KING>>>>

\* compute_modifications: the list hip
hip(previous_occupied_white, previous_occupied_black, new_occupied_white, new_occupied_black) ==
  <<<<previous_occupied_white, new_occupied_white, WHITE>>,
    <<previous_occupied_black, new_occupied_black, BLACK>>>>

\* removals as it would be if the new colour bitboard were left out.
removals_without_new_color(previous_bitboard_piece, previous_bitboard_color, new_bitboard_piece, new_bitboard_color) ==
  BitAndNot(BitAnd(previous_bitboard_piece, previous_bitboard_color),
            new_bitboard_piece)

\* compute_modifications: the mask removals of one piece type and colour
removals(previous_bitboard_piece, previous_bitboard_color, new_bitboard_piece, new_bitboard_color) ==
  BitAndNot(BitAnd(previous_bitboard_piece, previous_bitboard_color),
            BitAnd(new_bitboard_piece, new_bitboard_color))

\* appearance as it would be with the two snapshots taken the other way round.
appearance_swapped(previous_bitboard_piece, previous_bitboard_color, new_bitboard_piece, new_bitboard_color) ==
  BitAndNot(BitAnd(previous_bitboard_piece, previous_bitboard_color),
            BitAnd(new_bitboard_piece, new_bitboard_color))

\* appearance as it would be without the mask of the previous snapshot.
appearance_unmasked(previous_bitboard_piece, previous_bitboard_color, new_bitboard_piece, new_bitboard_color) ==
  BitAnd(new_bitboard_piece, new_bitboard_color)

\* compute_modifications: the mask appearance of one piece type and colour
appearance(previous_bitboard_piece, previous_bitboard_color, new_bitboard_piece, new_bitboard_color) ==
  BitAndNot(BitAnd(new_bitboard_piece, new_bitboard_color),
            BitAnd(previous_bitboard_piece, previous_bitboard_color))

compute_modifications(previous_pawns, previous_kings, previous_queens, previous_rooks, previous_bishops, previous_knights, previous_occupied_white, previous_occupied_black, new_pawns, new_kings, new_queens, new_rooks, new_bishops, new_knights, new_occupied_white, new_occupied_black) ==
  LET hop_ == hop(previous_pawns, previous_kings, previous_queens, previous_rooks,
                  previous_bishops, previous_knights, new_pawns, new_kings,
                  new_queens, new_rooks, new_bishops, new_knights)
      hip_ == hip(previous_occupied_white, previous_occupied_black,
                  new_occupied_white, new_occupied_black)
      loop == {<<hop_[i], hip_[j]>> : i \in 1..Len(hop_), j \in 1..Len(hip_)}
  IN [removals_ |->
        UNION {{PieceInSquare(square, x[1][3], x[2][3]) :
                  square \in scan_forward(removals(x[1][1], x[2][1], x[1][2], x[2][2]))} :
               x \in loop},
      appearances_ |->
        UNION {{PieceInSquare(square, x[1][3], x[2][3]) :
                  square \in scan_forward(appearance(x[1][1], x[2][1], x[1][2], x[2][2]))} :
               x \in loop}]

\* ---- snapshots ----------------------------------------------------------
Squares == 0 .. (MaxSquares - 1)

PieceTypes == {PAWN, KNIGHT, BISHOP, ROOK, QUEEN, KING}

Colors == {WHITE, BLACK}

\* The positions on the given squares: the pieces by square, at most n.
Placements(squares, n) ==
  UNION {[S -> [piece : PieceTypes, color : Colors]] :
           S \in {T \in SUBSET squares : Cardinality(T) <= n}}

\* The bitboard with the bits of the squares in S set.
BitboardOf(S) ==
  LET RECURSIVE Sum(_)
      Sum(T) == IF T = {} THEN 0
                ELSE LET s == Min(T) IN 2 ^ s + Sum(T \ {s})
  IN Sum(S)

\* The six piece-type bitboards and two colour bitboards of a position.
Snapshot(p) ==
  [pawns |-> BitboardOf({s \in DOMAIN p : p[s].piece = PAWN}),
   kings |-> BitboardOf({s \in DOMAIN p : p[s].piece = KING}),
   queens |-> BitboardOf({s \in DOMAIN p : p[s].piece = QUEEN}),
   rooks |-> BitboardOf({s \in DOMAIN p : p[s].piece = ROOK}),
   bishops |-> BitboardOf({s \in DOMAIN p : p[s].piece = BISHOP}),
   knights |-> BitboardOf({s \in DOMAIN p : p[s].piece = KNIGHT}),
   occupied_white |-> BitboardOf({s \in DOMAIN p : p[s].color = WHITE}),
   occupied_black |-> BitboardOf({s \in DOMAIN p : p[s].color = BLACK})]

\* compute_modifications called on two snapshots.
Modifications(previous, new) ==
  compute_modifications(
    previous.pawns, previous.kings, previous.queens, previous.rooks,
    previous.bishops, previous.knights, previous.occupied_white,
    previous.occupied_black,
    new.pawns, new.kings, new.queens, new.rooks, new.bishops, new.knights,
    new.occupied_white, new.occupied_black)

\* Position p with the pieces on the squares of gone taken off and the
\* pieces of put (a function from squares to pieces) set down.
Rearranged(p, gone, put) ==
  [s \in ((DOMAIN p) \ gone) \cup (DOMAIN put) |->
     IF s \in DOMAIN put THEN put[s] ELSE p[s]]

\* The moves of one piece in position p that are no promotions, each with
\* the position it leads to: a move to an empty square, a capture, castling
\* (king and rook of one colour both move to empty squares) and an en-passant
\* capture (a pawn moves to an empty square, the enemy pawn on a third square
\* is taken).
MovesOf(p) ==
  LET empty == Squares \ DOMAIN p
  IN {[kind |-> "quiet", from |-> a, to |-> b, other |-> a, other_to |-> b,
       after |-> Rearranged(p, {a}, b :> p[a])] :
        a \in DOMAIN p, b \in empty}
     \cup
     {[kind |-> "capture", from |-> x[1], to |-> x[2], other |-> x[2], other_to |-> x[2],
       after |-> Rearranged(p, {x[1]}, x[2] :> p[x[1]])] :
        x \in {y \in (DOMAIN p) \X (DOMAIN p) : p[y[1]].color # p[y[2]].color}}
     \cup
     {[kind |-> "castling", from |-> x[1], to |-> x[3], other |-> x[2], other_to |-> x[4],
       after |-> Rearranged(p, {x[1], x[2]}, (x[3] :> p[x[1]]) @@ (x[4] :> p[x[2]]))] :
        x \in {y \in (DOMAIN p) \X (DOMAIN p) \X empty \X empty :
                 /\ p[y[1]].piece = KING /\ p[y[2]].piece = ROOK
                 /\ p[y[1]].color = p[y[2]].color /\ y[3] # y[4]}}
     \cup
     {[kind |-> "en_passant", from |-> x[1], to |-> x[3], other |-> x[2], other_to |-> x[2],
       after |-> Rearranged(p, {x[1], x[2]}, x[3] :> p[x[1]])] :
        x \in {y \in (DOMAIN p) \X (DOMAIN p) \X empty :
                 /\ p[y[1]].piece = PAWN /\ p[y[2]].piece = PAWN
                 /\ p[y[1]].color # p[y[2]].color}}

\* No board exists; last holds the arguments of the call to come.
NoBoards(args) ==
  /\ boards = [b \in BoardIds |-> None]
  /\ gens = [g \in GenIds |-> None]
  /\ lin = [b \in BoardIds |-> NoLin]
  /\ last = Last("snapshots", 0, 0, FALSE, args)

\* Any two snapshots.
InitSnapshots ==
  \E p \in Placements(0 .. (MaxSnapshotSquares - 1), MaxSnapshotPieces),
     q \in Placements(0 .. (MaxSnapshotSquares - 1), MaxSnapshotPieces) :
    NoBoards([previous |-> Snapshot(p), new |-> Snapshot(q),
              position |-> p, move |-> None, modifications |-> None])

\* The snapshots before and after a move.
InitMoves ==
  \E p \in Placements(Squares, MaxPieces) : \E m \in MovesOf(p) :
    NoBoards([previous |-> Snapshot(p), new |-> Snapshot(m.after),
              position |-> p, move |-> Some(m), modifications |-> None])

\* compute_modifications(previous..., new...)
ComputeModifications ==
  /\ last.op = "snapshots"
  /\ last' = Last("compute_modifications", 0, 0, FALSE,
                  [last.ret EXCEPT !.modifications =
                     Some(Modifications(last.ret.previous, last.ret.new))])
  /\ UNCHANGED <<boards, gens, lin>>

SpecSnapshots == InitSnapshots /\ [][ComputeModifications]_vars

SpecMoves == InitMoves /\ [][ComputeModifications]_vars

\* Bit sq of bitboard bb is set.
TestBit(bb, sq) == (bb \div (2 ^ sq)) % 2 = 1

PieceBitboard(snapshot, piece) ==
  CASE piece = PAWN -> snapshot.pawns
    [] piece = KNIGHT -> snapshot.knights
    [] piece = BISHOP -> snapshot.bishops
    [] piece = ROOK -> snapshot.rooks
    [] piece = QUEEN -> snapshot.queens
    [] OTHER -> snapshot.kings

ColorBitboard(snapshot, color) ==
  IF color = WHITE THEN snapshot.occupied_white ELSE snapshot.occupied_black

\* Square sq holds a piece of the given type and colour in the snapshot: its
\* bit is set in the piece-type bitboard and in the colour bitboard.
Holds(snapshot, sq, piece, color) ==
  TestBit(PieceBitboard(snapshot, piece), sq) /\ TestBit(ColorBitboard(snapshot, color), sq)

Computed == last.op = "compute_modifications"

\* C18: compute_modifications returns as removals exactly the (square, piece
\* type, colour) triples set in beforePiece & beforeColour and clear in
\* afterPiece & afterColour, as appearances exactly those clear before and
\* set after, over all 12 combinations; every emitted square is in 0..63.
C18_ModificationsExact ==
  Computed =>
    LET previous == last.ret.previous
        new == last.ret.new
        mods == Val(last.ret.modifications)
        triples == Squares \X PieceTypes \X Colors
    IN /\ mods.removals_ =
            {PieceInSquare(t[1], t[2], t[3]) :
               t \in {u \in triples : /\ Holds(previous, u[1], u[2], u[3])
                                      /\ ~Holds(new, u[1], u[2], u[3])}}
       /\ mods.appearances_ =
            {PieceInSquare(t[1], t[2], t[3]) :
               t \in {u \in triples : /\ ~Holds(previous, u[1], u[2], u[3])
                                      /\ Holds(new, u[1], u[2], u[3])}}
       /\ \A x \in mods.removals_ \cup mods.appearances_ : x.square \in 0..63

\* A piece that changed colour where it stands, or moved.
C18_Witness ==
  /\ Computed
  /\ \E r \in Val(last.ret.modifications).removals_ :
       \E a \in Val(last.ret.modifications).appearances_ :
         r.piece = a.piece /\ r.color # a.color /\ r.square = a.square

\* C19: the removals and the appearances compute_modifications returns are
\* disjoint: no (square, piece type, colour) triple is in both.
C19_ModificationsDisjoint ==
  Computed =>
    Val(last.ret.modifications).removals_ \cap Val(last.ret.modifications).appearances_ = {}

\* One square in both sets, with different pieces.
C19_Witness ==
  /\ Computed
  /\ \E r \in Val(last.ret.modifications).removals_ :
       \E a \in Val(last.ret.modifications).appearances_ :
         r.square = a.square /\ r.piece # a.piece

\* The piece of position p on square s, as a PieceInSquare on square t.
PieceOn(p, s, t) == PieceInSquare(t, p[s].piece, p[s].color)

\* C20 as amended: a move of one piece to an empty square, no promotion,
\* gives exactly one removal and one appearance, the same piece type and
\* colour on different squares; an ordinary capture gives two removals (the
\* mover's origin and the captured piece on the destination) and one
\* appearance; castling gives two removal/appearance pairs, king and rook;
\* an en-passant capture gives two removals (the mover's origin and the
\* captured pawn's square) and one appearance.
C20_MoveModifications ==
  Computed =>
    LET m == Val(last.ret.move)
        p == last.ret.position
        mods == Val(last.ret.modifications)
    IN CASE m.kind = "quiet" ->
              /\ mods.removals_ = {PieceOn(p, m.from, m.from)}
              /\ mods.appearances_ = {PieceOn(p, m.from, m.to)}
              /\ m.from # m.to
         [] m.kind = "capture" ->
              /\ mods.removals_ = {PieceOn(p, m.from, m.from), PieceOn(p, m.to, m.to)}
              /\ Cardinality(mods.removals_) = 2
              /\ mods.appearances_ = {PieceOn(p, m.from, m.to)}
         [] m.kind = "castling" ->
              /\ mods.removals_ = {PieceOn(p, m.from, m.from), PieceOn(p, m.other, m.other)}
              /\ mods.appearances_ = {PieceOn(p, m.from, m.to), PieceOn(p, m.other, m.other_to)}
              /\ Cardinality(mods.removals_) = 2
              /\ Cardinality(mods.appearances_) = 2
         [] OTHER ->
              /\ mods.removals_ = {PieceOn(p, m.from, m.from), PieceOn(p, m.other, m.other)}
              /\ Cardinality(mods.removals_) = 2
              /\ mods.appearances_ = {PieceOn(p, m.from, m.to)}

C20_Witness ==
  /\ Computed
  /\ Val(last.ret.move).kind = "capture"
  /\ Cardinality(Val(last.ret.modifications).removals_) = 2
  /\ Cardinality(Val(last.ret.modifications).appearances_) = 1

\* C20 as stated: every move of one piece that is no promotion, castling and
\* en-passant captures excepted, gives exactly one removal and one
\* appearance with the same piece type and colour on different squares;
\* castling gives two pairs, an en-passant capture two removals and one
\* appearance.
C20_OneRemovalOneAppearance ==
  Computed =>
    LET m == Val(last.ret.move)
        mods == Val(last.ret.modifications)
    IN CASE m.kind = "castling" ->
              Cardinality(mods.removals_) = 2 /\ Cardinality(mods.appearances_) = 2
         [] m.kind = "en_passant" ->
              Cardinality(mods.removals_) = 2 /\ Cardinality(mods.appearances_) = 1
         [] OTHER ->
              /\ Cardinality(mods.removals_) = 1
              /\ Cardinality(mods.appearances_) = 1
              /\ \A r \in mods.removals_ : \A a \in mods.appearances_ :
                   r.piece = a.piece /\ r.color = a.color /\ r.square # a.square

\* C21: for every snapshot s, compute_modifications(s, s) returns empty
\* removals and empty appearances.
C21_NoMoveNoModifications ==
  (Computed /\ last.ret.previous = last.ret.new)
    => /\ Val(last.ret.modifications).removals_ = {}
       /\ Val(last.ret.modifications).appearances_ = {}

C21_Witness ==
  /\ Computed
  /\ last.ret.previous = last.ret.new
  /\ last.ret.position # << >>
  /\ Val(last.ret.modifications).removals_ = {}

\* ---- keys of two positions ----------------------------------------------
KeyFieldNames ==
  <<"pawns", "knights", "bishops", "rooks", "queens", "kings", "turn",
    "castling_rights", "ep_square", "white", "black", "promoted",
    "fullmove_number", "halfmove_clock">>

\* The values an argument of compute_key is drawn from.
KeyFieldValues(name) ==
  CASE name = "turn" -> BOOLEAN
    [] name = "ep_square" -> {None} \cup {Some(sq) : sq \in 0 .. MaxKeyField}
    [] OTHER -> 0 .. MaxKeyField

\* All arguments zero, turn False, no en-passant square.
KeyArgsZero ==
  [pawns |-> 0, knights |-> 0, bishops |-> 0, rooks |-> 0, queens |-> 0,
   kings |-> 0, turn |-> FALSE, castling_rights |-> 0, ep_square |-> None,
   white |-> 0, black |-> 0, promoted |-> 0, fullmove_number |-> 0,
   halfmove_clock |-> 0]

\* The argument lists in which at most n arguments differ from KeyArgsZero.
KeyArgs(n) ==
  LET RECURSIVE Vary(_, _)
      Vary(S, k) ==
        IF k = 0 THEN S
        ELSE Vary(S \cup UNION {{[a EXCEPT ![KeyFieldNames[i]] = v] :
                                  a \in S, v \in KeyFieldValues(KeyFieldNames[i])} :
                                i \in 1..Len(KeyFieldNames)},
                  k - 1)
  IN Vary({KeyArgsZero}, n)

\* compute_key called on an argument list.
KeyOfArgs(a) ==
  compute_key(a.pawns, a.knights, a.bishops, a.rooks, a.queens, a.kings, a.turn,
              a.castling_rights, a.ep_square, a.white, a.black, a.promoted,
              a.fullmove_number, a.halfmove_clock)

\* Two argument lists; last holds them for the calls to come.
InitKeyPairs ==
  \E a \in KeyArgs(MaxKeyFields), b \in KeyArgs(MaxKeyFields) :
    /\ boards = [x \in BoardIds |-> None]
    /\ gens = [g \in GenIds |-> None]
    /\ lin = [x \in BoardIds |-> NoLin]
    /\ last = Last("key_arguments", 0, 0, FALSE,
                   [a |-> a, b |-> b, key_a |-> None, key_b |-> None,
                    reduced_a |-> None, reduced_b |-> None])

\* compute_key(a...), compute_key(b...), and the reduced keys of two boards
\* that hold these keys.
ComputeKeys ==
  /\ last.op = "key_arguments"
  /\ LET key_a == KeyOfArgs(last.ret.a)
         key_b == KeyOfArgs(last.ret.b)
     IN last' = Last("compute_key", 0, 0, FALSE,
                     [last.ret EXCEPT
                        !.key_a = Some(key_a),
                        !.key_b = Some(key_b),
                        !.reduced_a = Some(fast_representation_without_counters(
                                             [fast_representation_ |-> key_a])),
                        !.reduced_b = Some(fast_representation_without_counters(
                                             [fast_representation_ |-> key_b]))])
  /\ UNCHANGED <<boards, gens, lin>>

SpecKeyPairs == InitKeyPairs /\ [][ComputeKeys]_vars

KeysComputed == last.op = "compute_key"

\* The arguments in the order the key is said to list them.
ListedInOrder(a) ==
  <<a.pawns, a.knights, a.bishops, a.rooks, a.queens, a.kings, a.turn,
    a.castling_rights, a.ep_square, a.white, a.black, a.promoted,
    a.fullmove_number, a.halfmove_clock>>

\* C22: compute_key is injective on its 14 inputs: two calls return equal
\* keys if and only if all 14 arguments are pairwise equal, and the key lists
\* pawns, knights, bishops, rooks, queens, kings, turn, castling rights,
\* en-passant square, white, black, promoted, fullmove number and halfmove
\* clock in that order.
C22_KeyInjective ==
  KeysComputed =>
    /\ (Val(last.ret.key_a) = Val(last.ret.key_b)) <=> (last.ret.a = last.ret.b)
    /\ Val(last.ret.key_a) = ListedInOrder(last.ret.a)
    /\ Val(last.ret.key_b) = ListedInOrder(last.ret.b)

\* Two positions that differ in the en-passant square alone, one having none.
C22_Witness ==
  /\ KeysComputed
  /\ last.ret.a.ep_square = None
  /\ last.ret.b.ep_square = Some(0)
  /\ Val(last.ret.key_a) # Val(last.ret.key_b)

\* C23: the reduced key is the key with exactly its last two components,
\* fullmove number and halfmove clock, dropped: two boards have equal reduced
\* keys if and only if the first 12 components of their keys are equal.
C23_ReducedKey ==
  KeysComputed =>
    /\ Len(Val(last.ret.reduced_a)) = 12
    /\ \A i \in 1..12 : Val(last.ret.reduced_a)[i] = Val(last.ret.key_a)[i]
    /\ (Val(last.ret.reduced_a) = Val(last.ret.reduced_b))
         <=> (\A i \in 1..12 : Val(last.ret.key_a)[i] = Val(last.ret.key_b)[i])

\* Two positions that differ in the fullmove number alone.
C23_Witness ==
  /\ KeysComputed
  /\ last.ret.a.fullmove_number # last.ret.b.fullmove_number
  /\ Val(last.ret.key_a) # Val(last.ret.key_b)
  /\ Val(last.ret.reduced_a) = Val(last.ret.reduced_b)

\* The legal moves that take the engine from position c to position c2.
MovesBetween(c, c2) ==
  {m \in SeqToSet(ChessLegalMoves(c)) : ChessPlay(c, m) = c2}

\* C24: on one board the move history is the sequence of the notations of
\* the moves applied, in order: a successful play_move_key / play_move_uci
\* appends exactly the notation of the move played and leaves the earlier
\* entries as they were; legal-move generation, copy and a play that raises
\* leave the history unchanged.
C24_HistoryIsMovesPlayed ==
  [][/\ Len(B(0).move_stack) = lin[0].plies
     /\ IF IsPlay(last'.op) /\ ~last'.err /\ last'.src = 0
          THEN /\ MovesBetween(B(0).chess_, Val(boards'[0]).chess_) # {}
               /\ \A m \in MovesBetween(B(0).chess_, Val(boards'[0]).chess_) :
                    Val(boards'[0]).move_stack = Append(B(0).move_stack, Uci(m))
          ELSE Val(boards'[0]).move_stack = B(0).move_stack]_vars

C24_Witness ==
  /\ IsPlay(last.op) /\ ~last.err /\ last.src = 0
  /\ Len(B(0).move_stack) = 3
  /\ B(0).move_stack[1] # B(0).move_stack[3]

\* The side that made the last move on board bd.
Mover(bd) == IF bd.chess_.turn THEN "BLACK" ELSE "WHITE"

\* C30: when a step ends the game, the over-event is classified from
\* result(claim_draw=True) of the post-move board: "1-0" gives (WIN, WHITE),
\* "0-1" gives (WIN, BLACK), "1/2-1/2" gives (DRAW, NO_KNOWN_WINNER) and only
\* another result gives (DO_NOT_KNOW_OVER, NO_KNOWN_WINNER); a move that wins
\* the game gives is_over and a WIN event for the side that made it.
C30_OverEventClassified ==
  (IsStep /\ is_game_over(B(last.dst))) =>
    LET res == result(B(last.dst), TRUE)
        ev == Val(last.ret.over_event)
    IN /\ last.ret.is_over
       /\ ~IsNone(last.ret.over_event)
       /\ res = "1-0" => (ev[1] = "WIN" /\ ev[2] = "WHITE")
       /\ res = "0-1" => (ev[1] = "WIN" /\ ev[2] = "BLACK")
       /\ res = "1/2-1/2" => (ev[1] = "DRAW" /\ ev[2] = "NO_KNOWN_WINNER")
       /\ res \notin {"1-0", "0-1", "1/2-1/2"}
            => (ev[1] = "DO_NOT_KNOW_OVER" /\ ev[2] = "NO_KNOWN_WINNER")
       /\ ChessResult(B(last.dst).chess_) \in {"1-0", "0-1"}
            => (ev[1] = "WIN" /\ ev[2] = Mover(B(last.dst)))

C30_Witness ==
  /\ IsStep
  /\ last.ret.is_over
  /\ ChessResult(B(last.dst).chess_) = "1-0"
  /\ Val(last.ret.over_event)[1] = "WIN"
  /\ Val(last.ret.over_event)[2] = "WHITE"

\* ---- the generator's own operations -------------------------------------
\* The plies played while the generator's own operations are exercised.
MaxPlyGen == 4

\* One board whose generator is built without moves or with the moves of
\* the starting position.
InitGen ==
  \E sort_legal_moves \in BOOLEAN, with_moves \in BOOLEAN :
    /\ boards = [b \in BoardIds |->
                   IF b = 0 THEN Some(NewBoard(StartChess, TRUE, 0)) ELSE None]
    /\ gens = [g \in GenIds |->
                 IF g = 0
                   THEN Some(GenInit(sort_legal_moves, 0,
                                     IF with_moves
                                       THEN Some(ChessLegalMoves(StartChess))
                                       ELSE None))
                   ELSE None]
    /\ lin = [b \in BoardIds |->
                IF b = 0 THEN [count |-> ReducedOfChess(StartChess) :> 1,
                               plies |-> 0, parent |-> 0, deep |-> FALSE,
                               held |-> None]
                ELSE NoLin]
    /\ last = Last("init", 0, 0, FALSE, None)

\* iter(board.legal_moves), then next() until StopIteration: the keys
\* yielded are returned and the iterator is left exhausted.
Iterate(b) ==
  /\ Live(b)
  /\ LET gid == B(b).legal_moves_
         g == G(gid)
         r == GenIter(g, B(g.chess_rust_binding).chess_)
     IN IF r.err
          THEN /\ gens' = [gens EXCEPT ![gid] = Some(r.gen)]
               /\ last' = Last("iterate", b, b, TRUE, None)
          ELSE /\ gens' = [gens EXCEPT ![gid] = Some([r.gen EXCEPT !.it = Some(<<>>)])]
               /\ last' = Last("iterate", b, b, FALSE, r.gen.it)
  /\ UNCHANGED <<boards, lin>>

\* board.legal_moves.all_generated_keys
AllGeneratedKeys(b) ==
  /\ Live(b)
  /\ last' = Last("all_generated_keys", b, b, FALSE,
                  G(B(b).legal_moves_).all_generated_keys_)
  /\ UNCHANGED <<boards, gens, lin>>

\* board.legal_moves.more_than_one()
MoreThanOne(b) ==
  /\ Live(b)
  /\ LET gid == B(b).legal_moves_
         g == G(gid)
         c == B(g.chess_rust_binding).chess_
     IN /\ gens' = [gens EXCEPT ![gid] = Some(GenAfterMoreThanOne(g, c))]
        /\ last' = Last("more_than_one", b, b, FALSE, Some(more_than_one(g, c)))
  /\ UNCHANGED <<boards, lin>>

\* board.legal_moves.reset(moves), with the engine's list of the legal moves
\* of the board's position
Reset(b) ==
  /\ Live(b)
  /\ gens' = [gens EXCEPT ![B(b).legal_moves_] =
                Some(GenReset(G(B(b).legal_moves_), ChessLegalMoves(B(b).chess_)))]
  /\ last' = Last("reset", b, b, FALSE, None)
  /\ UNCHANGED <<boards, lin>>

\* board.legal_moves.set_legal_moves(moves), with the same list
SetLegalMoves(b) ==
  /\ Live(b)
  /\ gens' = [gens EXCEPT ![B(b).legal_moves_] =
                Some(GenSetLegalMoves(G(B(b).legal_moves_),
                                      ChessLegalMoves(B(b).chess_)))]
  /\ last' = Last("set_legal_moves", b, b, FALSE, None)
  /\ UNCHANGED <<boards, lin>>

\* One board that is played on; its generator is enumerated, reset and
\* given moves; the board is copied once, with a generator of its own, and
\* the copy's generator is used in the same ways.
NextGen ==
  \/ \E b \in BoardIds : GetAll(b)
  \/ \E b \in BoardIds : Iterate(b)
  \/ \E b \in BoardIds : AllGeneratedKeys(b)
  \/ \E b \in BoardIds : MoreThanOne(b)
  \/ \E b \in BoardIds : Reset(b)
  \/ \E b \in BoardIds : SetLegalMoves(b)
  \/ Uncopied /\ \E stack \in BOOLEAN : Copy(0, stack, TRUE)
  \/ \E k \in KeyInputs : PlyBelow(0, MaxPlyGen) /\ PlayMoveKey(0, k)
  \/ PlyBelow(0, MaxPlyGen) /\ \E u \in UciInputs(0) : PlayMoveUci(0, u)

SpecGen == InitGen /\ [][NextGen]_vars

\* The keys list the moves in ascending order of their notations.
AscendingByUci(keys, moves) ==
  /\ \A i \in 1..Len(keys) : keys[i] \in 0..(Len(moves) - 1)
  /\ \A i \in 1..Len(keys) : \A j \in 1..Len(keys) :
       i < j => ~UciLess(Uci(moves[keys[j] + 1]), Uci(moves[keys[i] + 1]))

IsEnumeration == last.op \in {"get_all", "iterate", "all_generated_keys"}

\* C26: with sort_legal_moves True every enumeration of the generator's
\* keys (get_all(), iteration, all_generated_keys when it is not None) lists
\* the keys in ascending order of their notations, in every generator state:
\* built with moves, lazily generated, copied, after reset and after
\* set_legal_moves.
C26_EnumerationsSorted ==
  (/\ IsEnumeration /\ ~last.err /\ ~IsNone(last.ret)
   /\ G(B(last.src).legal_moves_).sort_legal_moves)
    => AscendingByUci(Val(last.ret),
                      Val(G(B(last.src).legal_moves_).generated_moves))

\* The keys are the integers 0..n-1, each exactly once.
EachKeyOnce(keys, n) ==
  /\ Len(keys) = n
  /\ \A k \in 0..(n - 1) : \E i \in 1..n : keys[i] = k

\* C27: iterating the generator when no moves have been generated yet
\* generates them and yields each key 0..N-1 exactly once, without error
\* and in the order of get_all(); iterating again yields the same sequence.
C27_IterationLazy ==
  [][\A b \in BoardIds :
       (/\ Live(b) /\ IsNone(G(B(b).legal_moves_).generated_moves)
        /\ Iterate(b))
         => /\ ~last'.err
            /\ EachKeyOnce(Val(last'.ret), Len(ChessLegalMoves(B(b).chess_)))
            /\ LET g2 == Val(gens'[B(b).legal_moves_])
                   c == B(g2.chess_rust_binding).chess_
                   again == GenIter(g2, c)
               IN /\ Val(last'.ret) = GenGetAllKeys(g2, c)
                  /\ ~again.err
                  /\ Val(again.gen.it) = Val(last'.ret)]_vars

\* C28: more_than_one() returns True exactly when the board's position has
\* strictly more than one legal move.
C28_MoreThanOne ==
  last.op = "more_than_one" =>
    (Val(last.ret) <=> Len(ChessLegalMoves(B(last.src).chess_)) > 1)

\* ---- a board and its copy that shares the generator ---------------------
\* The board has applied a move, so its generator is one play_move gave it.
HasMoved(b) == Live(b) /\ ChessPly(B(b).chess_) >= 1

\* The starting board is copied at once with deep_copy_legal_moves False;
\* then moves are applied to the board and to the copy, and each of them,
\* once it has applied a move, has its moves generated and plays by key.
NextRebound ==
  \/ Uncopied /\ \E stack \in BOOLEAN : Copy(0, stack, FALSE)
  \/ \E b \in BoardIds : ~Uncopied /\ PlyBelow(b, MaxPlyFork)
                           /\ \E u \in UciInputs(b) : PlayMoveUci(b, u)
  \/ \E b \in BoardIds : HasMoved(b) /\ GetAll(b)
  \/ \E b \in BoardIds : HasMoved(b) /\ \E u \in UciOrNot(b) : GetMoveKeyFromUci(b, u)
  \/ \E b \in BoardIds : HasMoved(b) /\ PlyBelow(b, MaxPlyFork)
                           /\ \E k \in KeyInputs : PlayMoveKey(b, k)

SpecRebound == Init /\ [][NextRebound]_vars

\* C25: get_all() returns each integer 0..N-1 exactly once, N the number of
\* legal moves of the board's position, in every generator state; a second
\* call returns the same sequence, and the call changes neither the tag, the
\* history nor the repetition counter of any board.
C25_GetAllEachKeyOnce ==
  [][\A b \in BoardIds :
       (GetAll(b) /\ ~last'.err)
         => /\ EachKeyOnce(Val(last'.ret), Len(ChessLegalMoves(B(b).chess_)))
            /\ LET g2 == Val(gens'[B(b).legal_moves_])
               IN GenGetAllKeys(g2, B(g2.chess_rust_binding).chess_)
                    = Val(last'.ret)
            /\ boards' = boards]_vars

\* C29: from a board state with generated legal moves, applying the legal
\* move of notation u by play_move_uci(u) and by
\* play_move_key(get_move_key_from_uci(u)) gives the same board (tag,
\* bitboard fields, history, repetition counter), both leave the board with
\* a generator without moves, and both return the same modification.
C29_UciAndKeyAgree ==
  [][\A b \in BoardIds :
       (/\ Live(b) /\ ~IsNone(G(B(b).legal_moves_).generated_moves))
         => \A u \in UciInputs(b) :
              (PlayMoveUci(b, u) /\ ~last'.err)
                => LET g == G(B(b).legal_moves_)
                       key == get_move_key_from_uci(
                                g, B(g.chess_rust_binding).chess_, u)
                   IN /\ ~IsNone(key)
                      /\ LET m == Val(MoveOfKey(g, Val(key)))
                             c2 == ChessPlay(B(b).chess_, m)
                             ng == Val(boards'[b]).legal_moves_
                         IN /\ ChessIsLegal(B(b).chess_, m)
                            /\ Val(boards'[b]) = play_move(B(b), m, c2, ng)
                            /\ last'.ret = play_move_result(B(b), c2)
                            /\ IsNone(Val(gens'[ng]).generated_moves)]_vars

CountedKeys(cnt, cnt2) == (DOMAIN cnt) \cup (DOMAIN cnt2)

\* C33: on a single board that is never copied rep_to_count is the multiset
\* of the positions visited (the construction position and the position
\* after each move), by reduced key; a move application increases exactly
\* one count by exactly 1 and no operation decreases a count.
C33_CounterIsMultiset ==
  [][LET cnt == B(0).rep_to_count
         cnt2 == Val(boards'[0]).rep_to_count
     IN /\ \A k \in CountedKeys(cnt, lin[0].count) :
             CounterGet(cnt, k) = CounterGet(lin[0].count, k)
        /\ \A k \in CountedKeys(cnt2, lin'[0].count) :
             CounterGet(cnt2, k) = CounterGet(lin'[0].count, k)
        /\ \A k \in CountedKeys(cnt, cnt2) :
             CounterGet(cnt2, k) >= CounterGet(cnt, k)
        /\ IF IsPlay(last'.op) /\ ~last'.err /\ boards' # boards
             THEN /\ Cardinality({k \in CountedKeys(cnt, cnt2) :
                                    CounterGet(cnt2, k) # CounterGet(cnt, k)}) = 1
                  /\ CounterGet(cnt2, ReducedOfChess(Val(boards'[0]).chess_))
                       = CounterGet(cnt, ReducedOfChess(Val(boards'[0]).chess_)) + 1
             ELSE cnt2 = cnt]_vars

C33_Witness ==
  /\ IsPlay(last.op) /\ ~last.err
  /\ CounterGet(B(0).rep_to_count, CurrentReduced(0)) = 2
  /\ Cardinality(DOMAIN B(0).rep_to_count) >= 3

\* ---- play past a third occurrence ---------------------------------------
\* Plies enough to reach a position for the third time and to leave it.
MaxPlyRepeat == 11

\* One board, never copied, played on after a position occurred three times.
NextRepeat ==
  \/ GetAll(0)
  \/ \E k \in KeyInputs : PlyBelow(0, MaxPlyRepeat) /\ PlayMoveKey(0, k)
  \/ PlyBelow(0, MaxPlyRepeat) /\ \E u \in UciInputs(0) : PlayMoveUci(0, u)

SpecRepeat == Init /\ [][NextRepeat]_vars

\* C34: three-fold repetition is reported for the current position only:
\* where the engine does not report game over and is_game_over() is True,
\* the reduced key of the board's current position has a count greater than
\* 2 in rep_to_count.
C34_RepetitionOfCurrentPosition ==
  \A b \in BoardIds :
    (Live(b) /\ ~ChessIsGameOver(B(b).chess_) /\ is_game_over(B(b)))
      => CounterGet(B(b).rep_to_count, CurrentReduced(b)) > 2

\* C35: get_move_key_from_uci(u), N the number of legal moves of the
\* current position: for the notation of a legal move it returns a key k in
\* 0..N-1 with get_uci_from_move_key(k) = u, and looking up the notation of
\* any key k in 0..N-1 gives k back; for any other notation it raises and
\* returns no key; the board's tag, history and repetition counter are left
\* as they were.
C35_KeyOfNotation ==
  [][\A b \in {x \in BoardIds : Live(x)} : \A u \in UciOrNot(b) :
       GetMoveKeyFromUci(b, u)
         => LET g2 == Val(gens'[B(b).legal_moves_])
                c == B(g2.chess_rust_binding).chess_
                n == Len(ChessLegalMoves(B(b).chess_))
            IN /\ boards' = boards
               /\ IF u \in UciInputs(b)
                    THEN /\ ~last'.err
                         /\ Val(last'.ret) \in 0..(n - 1)
                         /\ get_uci_from_move_key(g2, Val(last'.ret)) = Some(u)
                         /\ \A k \in 0..(n - 1) :
                              /\ ~IsNone(get_uci_from_move_key(g2, k))
                              /\ get_move_key_from_uci(
                                   g2, c, Val(get_uci_from_move_key(g2, k)))
                                   = Some(k)
                    ELSE last'.err /\ IsNone(last'.ret)]_vars

\* ---- chains of adapter steps by name ------------------------------------
\* ChessDynamics.action_from_name(state, name) was the last call, on board
\* b, and returned key k.
NamedAction(b, k) ==
  /\ last.op = "get_move_key_from_uci" /\ ~last.err
  /\ last.src = b /\ last.ret = Some(k)

\* Each action is obtained by action_from_name on the current state and
\* passed to step; the state stepped from is dropped afterwards.
NextChain ==
  \/ \E b \in BoardIds : Newest(b) /\ \E u \in UciOrNot(b) : GetMoveKeyFromUci(b, u)
  \/ \E b \in BoardIds, k \in KeyInputs :
       Newest(b) /\ PlyBelow(b, MaxPly) /\ NamedAction(b, k) /\ Step(b, k)
  \/ \E b \in BoardIds : ~Newest(b) /\ Discard(b)

SpecChain == Init /\ [][NextChain]_vars

\* C36: in a chain of adapter steps whose actions come from
\* action_from_name(state, name) on the current state, step succeeds and
\* plays the named move: the board of next_state has the position reached by
\* that move, its history is exactly [name], and action_name(state, action)
\* is name.
C36_StepPlaysNamedMove ==
  [][\A b \in {x \in BoardIds : Live(x)} : \A k \in KeyInputs :
       (NamedAction(b, k) /\ Step(b, k))
         => LET g == G(B(b).legal_moves_)
                c == B(g.chess_rust_binding).chess_
            IN \A name \in UciOrNot(b) :
                 get_move_key_from_uci(g, c, name) = Some(k)
                   => /\ ~last'.err
                      /\ Val(boards'[last'.dst]).chess_
                           = ChessPlay(B(b).chess_, MoveOfUci(name))
                      /\ ChessIsLegal(B(b).chess_, MoveOfUci(name))
                      /\ Val(boards'[last'.dst]).move_stack = <<name>>
                      /\ get_uci_from_move_key(g, k) = Some(name)]_vars

C36_Witness ==
  /\ IsStep
  /\ lin[last.dst].plies >= 3
  /\ Len(B(last.dst).move_stack) = 1
  /\ ChessPly(B(last.dst).chess_) = lin[last.dst].plies

\* ---- a board that is played, stepped from, dumped and snapshotted -------
\* board.dump(file)
Dump(b) ==
  /\ Live(b)
  /\ last' = Last("dump", b, b, FALSE, dump(B(b)))
  /\ UNCHANGED <<boards, gens, lin>>

\* board.into_fen_plus_history(), the caller keeping the returned object
IntoFenPlusHistory(b) ==
  /\ Live(b)
  /\ lin' = [lin EXCEPT ![b].held = Some(into_fen_plus_history(B(b), b))]
  /\ last' = Last("into_fen_plus_history", b, b, FALSE, None)
  /\ UNCHANGED <<boards, gens>>

\* The content of the list a snapshot refers to as historical_moves.
HistoricalMoves(snapshot) == B(snapshot.historical_moves).move_stack

\* Board 0 is played on by notation and by adapter steps taken from it
\* (the next_state is dropped again), dumped and snapshotted.
NextReport ==
  \/ GetAll(0)
  \/ PlyBelow(0, MaxPly) /\ \E u \in UciInputs(0) : PlayMoveUci(0, u)
  \/ \E k \in KeyInputs : PlyBelow(0, MaxPly) /\ Step(0, k)
  \/ Discard(1)
  \/ Dump(0)
  \/ IntoFenPlusHistory(0)

SpecReport == Init /\ [][NextReport]_vars

\* C37: on every board is_game_over() is True exactly when
\* result(claim_draw=True) is not "*" (the engine's is_game_over() being
\* True exactly when its result() is not "*"); so every transition of step
\* with is_over True has info["result"] among "1-0", "0-1", "1/2-1/2" and
\* an over-event other than DO_NOT_KNOW_OVER.
C37_OverAgreesWithResult ==
  /\ \A b \in BoardIds :
       Live(b) => (is_game_over(B(b)) <=> result(B(b), TRUE) # "*")
  /\ (IsStep /\ last.ret.is_over)
       => /\ last.ret.info.result \in {"1-0", "0-1", "1/2-1/2"}
          /\ ~IsNone(last.ret.over_event)
          /\ Val(last.ret.over_event)[1] # "DO_NOT_KNOW_OVER"

C37_Witness ==
  /\ IsStep /\ last.ret.is_over /\ last.src = 0
  /\ Len(B(0).move_stack) >= 5
  /\ ~is_game_over(B(0))

\* C31: dump(file) writes to the file a structure with the board's current
\* FEN and the ordered list of the notations in its move history, and
\* leaves the board unchanged.
C31_DumpWritesFenAndHistory ==
  [][\A b \in {x \in BoardIds : Live(x)} :
       Dump(b) => /\ last'.ret = Some([current_fen |-> fen(B(b)),
                                       historical_moves |-> B(b).move_stack])
                  /\ boards' = boards]_vars

\* C39: a snapshot returned by into_fen_plus_history() keeps the
\* current_fen and the historical_moves the board had at the call, whatever
\* moves are applied to the board afterwards.
C39_SnapshotStable ==
  \A b \in BoardIds :
    (Live(b) /\ ~IsNone(lin[b].held))
      => LET snapshot == Val(lin[b].held)
         IN /\ Len(snapshot.at_call) = Len(B(b).move_stack)
                 => snapshot.current_fen = fen(B(b))
            /\ HistoricalMoves(snapshot) = snapshot.at_call

\* C38: on every board, after construction, move applications and copies,
\* rep_to_count is not empty and counts the current position's reduced key
\* at least once, so the maximum count is_game_over() and
\* result(claim_draw=True) take exists.
C38_CounterNeverEmpty ==
  \A b \in BoardIds :
    Live(b) =>
      /\ DOMAIN B(b).rep_to_count # {}
      /\ CounterGet(B(b).rep_to_count, CurrentReduced(b)) >= 1
      /\ CounterGet(B(b).rep_to_count,
                    fast_representation_without_counters(B(b))) >= 1
      /\ \E k \in DOMAIN B(b).rep_to_count :
           CounterMax(B(b).rep_to_count) = B(b).rep_to_count[k]

C38_Witness ==
  /\ IsPlay(last.op) /\ ~last.err /\ last.src = 1
  /\ lin[1].parent = 0
  /\ Cardinality(DOMAIN B(1).rep_to_count) >= 2
  /\ Len(B(1).move_stack) = 1

====
